---- MODULE Spec2Model ----
(***************************************************************************)
(* Email-to-upload ingestion pipeline of kb_upload_genie.                  *)
(*                                                                         *)
(* Two coroutines can run a poll cycle on the one asyncio event loop: the  *)
(* scheduled check task ("loop", EmailTaskManager._email_check_loop) and a *)
(* manual check ("manual", check_emails_once / manual_email_check).  A     *)
(* coroutine runs without interruption between two awaits that really     *)
(* suspend (database, Redis, SMTP thread); imaplib calls are synchronous.  *)
(* Every action below is one such uninterrupted segment; pc[w] names the   *)
(* await the coroutine is suspended at.                                    *)
(*                                                                         *)
(* The mailbox connection can drop at any time: from then on every mailbox  *)
(* command raises until a later cycle reconnects.                          *)
(***************************************************************************)
EXTENDS Integers, Sequences, FiniteSets, TLC

\* ---------------------------------------------------------------- bounds
MaxManual == 1
MaxWeb == 1
MaxErrors == 2
MaxNotif == 2
MaxBreaks == 1
MaxTime == 3
MaxName == 6

\* ------------------------------------------------------- program settings
EMAIL_HOURLY_LIMIT == 5
EMAIL_DAILY_LIMIT == 20
EMAIL_MARK_AS_READ == TRUE
EMAIL_DOMAIN_WHITELIST_ENABLED == TRUE

\* sizes are counted in KB: the ceiling of 10 * 1024 * 1024 bytes
EMAIL_MAX_ATTACHMENT_SIZE == 10240
EMAIL_MAX_ATTACHMENT_COUNT == 5

\* A file name is a sequence of tokens: a separator "/", a dot ".", or a
\* word without dot and separator ("../s.pdf" is <<".", ".", "/", "s", ".", "pdf">>).
EMAIL_ALLOWED_EXTENSIONS ==
    { <<".", "pdf">>, <<".", "doc">>, <<".", "docx">>, <<".", "txt">>,
      <<".", "md">>, <<".", "zip">>, <<".", "rar">> }

\* read from the environment file of the deployment (Settings allows extras)
AUTO_REPLY_ENABLED == TRUE
TRACKER_EMAIL_ENABLED == TRUE

\* The retention of the maintenance (30 days), in ticks of the clock now.
RETENTION == 2

Workers == {"loop", "manual"}

\* Senders of the model: two addresses of a whitelisted domain, one address
\* of a domain without a rule, one automated sender (noreply@...).
Senders == {"a1", "a2", "b1", "sys"}

\* the addresses a rate key can exist for (one key per hashed address)
RateSenders == Senders

\* _extract_domain
ExtractDomain(s) ==
    CASE s = "a1" -> "allowed.com"
      [] s = "a2" -> "allowed.com"
      [] s = "b1" -> "blocked.com"
      [] OTHER -> "allowed.com"

\* rows of EmailDomainRule: domain -> is_allowed
EmailDomainRule == [d \in {"allowed.com", "denied.com"} |-> d = "allowed.com"]

\* settings.EMAIL_ALLOWED_DOMAINS (used when whitelist mode is off)
EMAIL_ALLOWED_DOMAINS == {"allowed.com"}

\* is_system_email: sender address starts with one of EMAIL_SYSTEM_SENDERS
IsSystemSender(s) == s = "sys"

\* an attachment part: decoded file name and payload size (KB)
Att(fn, sz) == [name |-> fn, size |-> sz]

\* the file name <word>.pdf
Pdf(word) == <<word, ".", "pdf">>

\* a message of the INBOX with the given attachment parts
Mail(s, atts) == [sender |-> s, natt |-> Len(atts), atts |-> atts]

\* a message of the INBOX: sender and number of attachment parts (each a
\* valid 1KB doc.pdf)
Msg(s, n) == Mail(s, [i \in 1..n |-> Att(Pdf("doc"), 1)])

\* the counts of the two rate keys of one sender
Cnt(h, d) == [h |-> h, d |-> d]

\* both senders without a count
NoCounts == [s \in RateSenders |-> Cnt(0, 0)]

\* A scenario: the unread messages of the INBOX and the counts the shared
\* Redis store holds when the service starts, and the kinds of failure the
\* environment can produce ("imap", "db", "redis", "smtp", "disk").
Scn(mb, rt, ev) == [mailbox |-> mb, rates |-> rt, env |-> ev]

VARIABLES
    running,        \* EmailTaskManager.running
    pc,             \* [Workers -> await point]
    todo,           \* [Workers -> Seq(message id)]: email_ids not yet handled
    batch,          \* [Workers -> Seq(message id)]: processed_emails
    saved,          \* [Workers -> set of tracker ids]: saved_records
    chk,            \* [Workers -> record]: the rate check in progress
    mailbox,        \* Seq(MsgKinds): the INBOX, message id = position
    seen,           \* set of message ids flagged \Seen
    imapConn,       \* EmailService.imap_connection: "none" | "ok" | "broken"
    hourly, daily,  \* Redis keys email_rate:hourly:<hash>, email_rate:daily:<hash>
    articles,       \* rows of the articles table
    nextTid,        \* number of distinct tracker ids generated so far
    issued,         \* tracker ids handed to a user (HTTP response, confirmation mail)
    files,          \* message ids whose attachment was written to disk
    errors_count,   \* stats["errors_count"]
    total_emails_processed, \* stats["total_emails_processed"]
    notif,          \* [RateSenders -> limit notifications sent in the hourly window]
    deniedBy,       \* [message id -> last policy verdict]: "none", "domain",
                    \* "rate", or "domain_lost" (denied on a dropped connection)
    attempted,      \* message ids for which a notification to the sender was attempted
    cyc,            \* the scheduled cycle: outcome, errors counted, records created
    manualLeft,     \* manual checks still to be requested
    webLeft,        \* web uploads still to be requested
    breaksLeft,     \* mailbox connection drops still to happen
    env,            \* the kinds of failure the environment can produce
    now,            \* the wall clock (datetime.now()), in ticks
    disk,           \* files of UPLOAD_DIR/email_attachments: name, size, mtime
    attachments,    \* [Workers -> Seq]: attachments of the message in hand
    uploads,        \* rows of the email_uploads table
    conf,           \* [Workers -> record]: the confirmation phase of the cycle
    outbox,         \* messages handed to the SMTP connection (send_message)
    probe,          \* a call of a validation function: inputs and results
    domCache,       \* Redis keys domain_rule:<domain>: "none", "allowed", "blocked"
    armed,          \* [RateSenders -> h, d]: when EXPIRE last set the TTL of a key
    rules,          \* rows of email_domain_rules: "none", "allowed", "blocked"
    domCall,        \* the calls of DomainService in progress, and those done
    smtp_connection \* email_service.smtp_connection: "none" or "open" (not quit)

vars == <<running, pc, todo, batch, saved, chk, mailbox, seen, imapConn, hourly,
          daily, articles, nextTid, issued, files, errors_count,
          total_emails_processed, notif, deniedBy, attempted, cyc, manualLeft,
          webLeft, breaksLeft, env, now, disk, attachments, uploads, conf,
          outbox, probe, domCache, armed, rules, domCall, smtp_connection>>

\* variables of the stored files and of the upload rows
storeVars == <<now, disk, uploads>>

\* variables of the confirmation phase
mailVars == <<conf, outbox>>

\* variables of the calls of the validation functions
probeVars == <<probe, domCache>>

NoChk == [hTrue |-> 0, hUp |-> TRUE, h |-> 0, dUp |-> TRUE, verdict |-> "none"]

NoCyc == [outcome |-> "none", err |-> 0, recs |-> 0]

\* no confirmation phase yet: SMTP connections opened and closed, tracker
\* ids of saved_records, and those send_tracker_confirmation_email was
\* called for
NoConf == [opened |-> 0, closed |-> 0, records |-> {}, tried |-> {}]

\* NULL of a timestamp column
NoTime == -1

\* no call made
NoProbe == [kind |-> "none"]

\* the domains a verdict can be cached for
Domains == {"allowed.com", "blocked.com", "denied.com"}

\* the TTL of both rate keys was set before the service started, if ever
NoArmed == [h |-> NoTime, d |-> NoTime]

\* the table email_domain_rules with the rows of EmailDomainRule
RulesTable ==
    [d \in Domains |->
        IF d \notin DOMAIN EmailDomainRule THEN "none"
        ELSE IF EmailDomainRule[d] THEN "allowed" ELSE "blocked"]

\* no call of DomainService in progress, no rule changed yet
NoDomCall ==
    [check |-> [pc |-> "idle", domain |-> "none", is_allowed |-> FALSE],
     change |-> [pc |-> "idle", domain |-> "none"],
     completed |-> {}]

\* no verdict cached
NoCache == [d \in Domains |-> "none"]

Min(a, b) == IF a < b THEN a ELSE b

Sender(m) == mailbox[m].sender

\* _hash_email: sha256 of the lowercased address; one key per address
HashEmail(s) == s

\* the state after construction of the services, in scenario c
InitScn(c) ==
    /\ running = FALSE
    /\ pc = [w \in Workers |-> IF w = "loop" THEN "off" ELSE "idle"]
    /\ todo = [w \in Workers |-> <<>>]
    /\ batch = [w \in Workers |-> <<>>]
    /\ saved = [w \in Workers |-> {}]
    /\ chk = [w \in Workers |-> NoChk]
    /\ mailbox = c.mailbox
    /\ seen = {}
    /\ imapConn = "none"
    /\ hourly = [s \in RateSenders |-> c.rates[s].h]
    /\ daily = [s \in RateSenders |-> c.rates[s].d]
    /\ articles = {}
    /\ nextTid = 0
    /\ issued = {}
    /\ files = {}
    /\ errors_count = 0
    /\ total_emails_processed = 0
    /\ notif = [s \in RateSenders |-> 0]
    /\ deniedBy = [m \in 1..Len(c.mailbox) |-> "none"]
    /\ attempted = {}
    /\ cyc = NoCyc
    /\ manualLeft = MaxManual
    /\ webLeft = MaxWeb
    /\ breaksLeft = MaxBreaks
    /\ env = c.env
    /\ now = 0
    /\ disk = {}
    /\ attachments = [w \in Workers |-> <<>>]
    /\ uploads = {}
    /\ conf = [w \in Workers |-> NoConf]
    /\ outbox = {}
    /\ probe = NoProbe
    /\ domCache = NoCache
    /\ armed = [s \in RateSenders |-> NoArmed]
    /\ rules = RulesTable
    /\ domCall = NoDomCall
    /\ smtp_connection = "none"

\* the outcomes of an operation that fails only in an environment of kind f
Ok(f) == IF f \in env THEN BOOLEAN ELSE {TRUE}

\* how far a sending operation gets: the server is not reached ("refused"),
\* login raises, send_message raises, or nothing fails
SmtpOutcomes ==
    IF "smtp" \in env THEN {"ok", "refused", "login", "send"} ELSE {"ok"}

\* connect_smtp: smtp_connection is assigned as soon as the socket is
\* connected, before starttls and login; the except branch only returns False
ConnectSmtp(conn, outcome) == IF outcome = "refused" THEN conn ELSE "open"

\* ------------------------------------------------------------- helpers

\* _check_domain_allowed with a domain without a rule let through
DomainAllowedNoRule(s) ==
    LET domain == ExtractDomain(s) IN
    IF ~EMAIL_DOMAIN_WHITELIST_ENABLED
    THEN domain \in EMAIL_ALLOWED_DOMAINS
    ELSE IF domain \in DOMAIN EmailDomainRule
         THEN EmailDomainRule[domain]
         ELSE TRUE

\* EmailService._check_domain_allowed, the verdict when the query succeeds
DomainAllowed(s) ==
    LET domain == ExtractDomain(s) IN
    IF ~EMAIL_DOMAIN_WHITELIST_ENABLED
    THEN domain \in EMAIL_ALLOWED_DOMAINS
    ELSE IF domain \in DOMAIN EmailDomainRule
         THEN EmailDomainRule[domain]
         ELSE FALSE

\* the last position of token tok in fn at or before i, 0 when there is none
RECURSIVE LastIndex(_, _, _)
LastIndex(fn, tok, i) ==
    IF i = 0 THEN 0
    ELSE IF fn[i] = tok THEN i
         ELSE LastIndex(fn, tok, i - 1)

\* os.path.splitext(filename)[1]: from the last dot of the last path
\* component, when a character other than a dot stands before it there
SplitExt(fn) ==
    LET sep == LastIndex(fn, "/", Len(fn))
        dot == LastIndex(fn, ".", Len(fn))
    IN IF dot > sep /\ \E i \in (sep + 1)..(dot - 1) : fn[i] # "."
       THEN SubSeq(fn, dot, Len(fn))
       ELSE <<>>

\* '..' in filename
HasDotDot(fn) == \E i \in 1..(Len(fn) - 1) : fn[i] = "." /\ fn[i + 1] = "."

\* '/' in filename
HasSep(fn) == \E i \in 1..Len(fn) : fn[i] = "/"

\* EmailService._validate_attachment: size and extension
ValidateAttachment(fn, size) ==
    IF size > EMAIL_MAX_ATTACHMENT_SIZE THEN FALSE
    ELSE SplitExt(fn) \in EMAIL_ALLOWED_EXTENSIONS

\* AttachmentService._is_safe_filename
IsSafeFilename(fn) ==
    /\ ~HasDotDot(fn)
    /\ ~HasSep(fn)
    /\ Len(fn) <= 255
    /\ fn # <<>>

\* extensions AttachmentService._is_malicious_file refuses
ScriptExtensions ==
    { <<".", "bat">>, <<".", "cmd">>, <<".", "com">>, <<".", "exe">>,
      <<".", "scr">>, <<".", "vbs">>, <<".", "js">> }

\* AttachmentService.validate_attachment (no caller in the pipeline)
AttachmentServiceValidate(fn, size) ==
    IF ~IsSafeFilename(fn) THEN FALSE
    ELSE IF size = 0 THEN FALSE
    ELSE IF size > EMAIL_MAX_ATTACHMENT_SIZE THEN FALSE
    ELSE IF SplitExt(fn) = <<>> THEN FALSE
    ELSE IF SplitExt(fn) \notin EMAIL_ALLOWED_EXTENSIONS THEN FALSE
    ELSE SplitExt(fn) \notin ScriptExtensions

\* _save_attachment: f"{timestamp}_{email_hash}_{filename}", the timestamp
\* formatted to the second
StoredFilename(t, s, fn) == [timestamp |-> t, email_hash |-> s, filename |-> fn]

\* open(file_path, 'wb') and write: a file of that name is replaced
WriteFile(dsk, name, size, t) ==
    {f \in dsk : f.name # name} \cup {[name |-> name, size |-> size, mtime |-> t]}

\* The attachment parts of one message (email_service.py:388-422): at most
\* EMAIL_MAX_ATTACHMENT_COUNT parts are looked at; a part without name or
\* payload, or one that fails validation, is skipped; a valid part is
\* written by _save_attachment, whose open raises when the name holds a
\* separator (the directory does not exist) or the disk fails.
RECURSIVE StoreParts(_, _, _, _, _, _, _)
StoreParts(parts, count, s, diskOk, dsk, acc, wrote) ==
    IF parts = <<>> \/ count >= EMAIL_MAX_ATTACHMENT_COUNT
    THEN [disk |-> dsk, attachments |-> acc, raised |-> FALSE, wrote |-> wrote]
    ELSE LET a == Head(parts) IN
         IF a.name = <<>> \/ a.size = 0 \/ ~ValidateAttachment(a.name, a.size)
         THEN StoreParts(Tail(parts), count + 1, s, diskOk, dsk, acc, wrote)
         ELSE IF ~diskOk \/ HasSep(a.name)
         THEN [disk |-> dsk, attachments |-> acc, raised |-> TRUE, wrote |-> wrote]
         ELSE LET sf == StoredFilename(now, s, a.name) IN
              StoreParts(Tail(parts), count + 1, s, diskOk,
                         WriteFile(dsk, sf, a.size, now),
                         Append(acc, [original_filename |-> a.name,
                                      stored_filename |-> sf,
                                      file_size |-> a.size]),
                         TRUE)

\* imap_connection.store(email_id, '+FLAGS', '\\Seen') under EMAIL_MARK_AS_READ
MarkRead(sn, m) == IF EMAIL_MARK_AS_READ THEN sn \cup {m} ELSE sn

\* the store at the end of a message, and the one of the except handler
\* (email_service.py:445-453): both raise on a dropped connection
Flag(sn, m) == IF imapConn = "ok" THEN MarkRead(sn, m) ELSE sn

\* imap_connection.search(None, 'UNSEEN'): the unread ids, ascending
RECURSIVE UnseenFrom(_, _, _)
UnseenFrom(i, n, sn) ==
    IF i > n THEN <<>>
    ELSE IF i \in sn THEN UnseenFrom(i + 1, n, sn)
         ELSE <<i>> \o UnseenFrom(i + 1, n, sn)

\* The synchronous head of the for-loop of fetch_new_emails: messages are
\* taken until one reaches the first await (the domain check).  A fetch on a
\* dropped connection raises, and so does the store of the handler.
RECURSIVE Skip(_, _, _)
Skip(td, sn, conn) ==
    IF td = <<>> THEN [todo |-> <<>>, seen |-> sn]
    ELSE IF conn # "ok" THEN Skip(Tail(td), sn, conn)
    ELSE IF IsSystemSender(Sender(Head(td)))
         THEN Skip(Tail(td), MarkRead(sn, Head(td)), conn)
         ELSE [todo |-> td, seen |-> sn]

\* the cycle ghost after a scheduled cycle ended with the given outcome
EndCyc(cy, o) == [cy EXCEPT !.outcome = o]

\* The coroutine w goes on from the end of one message to its next await:
\* the domain check of the next message, the commit of save_email_records
\* when fetch_new_emails returned records, or the end of the cycle.
Continue(w, td, sn, bt, conn, cy) ==
    LET r == Skip(td, sn, conn) IN
    /\ seen' = r.seen
    /\ todo' = [todo EXCEPT ![w] = r.todo]
    /\ batch' = [batch EXCEPT ![w] = bt]
    /\ IF r.todo # <<>>
       THEN /\ pc' = [pc EXCEPT ![w] = "dom"]
            /\ cyc' = cy
       ELSE IF bt # <<>>
       THEN /\ pc' = [pc EXCEPT ![w] = "commit"]
            /\ cyc' = cy
       ELSE /\ pc' = [pc EXCEPT ![w] = IF w = "loop" THEN "sleep" ELSE "idle"]
            /\ cyc' = IF w = "loop" THEN EndCyc(cy, "ok") ELSE cy

\* awaits inside fetch_new_emails
FetchAwaits == {"dom", "rate_h", "rate_d", "notify", "incr"}

\* a poll cycle of w is fetching from the mailbox connection
InFetch(w) == pc[w] \in FetchAwaits

\* a poll cycle of w is in flight
InCycle(w) == pc[w] \in FetchAwaits \cup {"commit", "confirm", "quit"}

\* ------------------------------------------------------- task manager

\* EmailTaskManager.start_email_checking
StartEmailChecking ==
    /\ ~running
    /\ running' = TRUE
    /\ pc' = [pc EXCEPT !["loop"] = "fetch"]
    /\ UNCHANGED <<todo, batch, saved, chk, mailbox, env, seen, imapConn, hourly,
                   daily, articles, nextTid, issued, files, errors_count,
                   total_emails_processed, notif, deniedBy, attempted, cyc,
                   manualLeft, webLeft, breaksLeft>>
    /\ UNCHANGED <<now, disk, attachments, uploads, conf, outbox, probe, domCache,
                   armed, rules, domCall, smtp_connection>>

\* EmailTaskManager.stop_email_checking: check_task.cancel() raises
\* CancelledError at the await the task is suspended at.  Only the sleep
\* catches it; everywhere else it is not an Exception and ends the task.
StopEmailChecking ==
    /\ running
    /\ running' = FALSE
    /\ pc' = [pc EXCEPT !["loop"] = "off"]
    /\ todo' = [todo EXCEPT !["loop"] = <<>>]
    /\ batch' = [batch EXCEPT !["loop"] = <<>>]
    /\ saved' = [saved EXCEPT !["loop"] = {}]
    /\ chk' = [chk EXCEPT !["loop"] = NoChk]
    /\ cyc' = IF InCycle("loop") THEN EndCyc(cyc, "cancelled") ELSE cyc
    /\ UNCHANGED <<mailbox, env, seen, imapConn, hourly, daily, articles, nextTid,
                   issued, files, errors_count, total_emails_processed, notif,
                   deniedBy, attempted, manualLeft, webLeft, breaksLeft>>
    /\ UNCHANGED <<now, disk, uploads, conf, outbox, probe, domCache, armed,
                   rules, domCall, smtp_connection>>
    /\ attachments' = [attachments EXCEPT !["loop"] = <<>>]

\* _email_check_loop: asyncio.sleep(EMAIL_CHECK_INTERVAL) returned
SleepDone ==
    /\ pc["loop"] = "sleep"
    /\ running
    /\ pc' = [pc EXCEPT !["loop"] = "fetch"]
    /\ UNCHANGED <<running, todo, batch, saved, chk, mailbox, env, seen, imapConn,
                   hourly, daily, articles, nextTid, issued, files,
                   errors_count, total_emails_processed, notif, deniedBy,
                   attempted, cyc, manualLeft, webLeft, breaksLeft>>
    /\ UNCHANGED <<now, disk, attachments, uploads, conf, outbox, probe, domCache,
                   armed, rules, domCall, smtp_connection>>

\* the timeout counted by both handlers of _email_check_loop
TimeoutCountedTwice ==
    /\ InFetch("loop")
    /\ errors_count < MaxErrors
    /\ errors_count' = errors_count + 2
    /\ pc' = [pc EXCEPT !["loop"] = "sleep"]
    /\ todo' = [todo EXCEPT !["loop"] = <<>>]
    /\ batch' = [batch EXCEPT !["loop"] = <<>>]
    /\ chk' = [chk EXCEPT !["loop"] = NoChk]
    /\ cyc' = [cyc EXCEPT !.outcome = "timeout", !.err = @ + 2]
    /\ UNCHANGED <<running, saved, mailbox, env, seen, imapConn, hourly, daily,
                   articles, nextTid, issued, files, total_emails_processed,
                   notif, deniedBy, attempted, manualLeft, webLeft, breaksLeft>>
    /\ UNCHANGED <<now, disk, uploads, conf, outbox, probe, domCache, armed,
                   rules, domCall, smtp_connection>>
    /\ attachments' = [attachments EXCEPT !["loop"] = <<>>]

\* _email_check_loop: asyncio.wait_for(fetch_new_emails, 30) timed out
Timeout ==
    /\ InFetch("loop")
    /\ errors_count < MaxErrors
    /\ errors_count' = errors_count + 1
    /\ pc' = [pc EXCEPT !["loop"] = "sleep"]
    /\ todo' = [todo EXCEPT !["loop"] = <<>>]
    /\ batch' = [batch EXCEPT !["loop"] = <<>>]
    /\ chk' = [chk EXCEPT !["loop"] = NoChk]
    /\ cyc' = [cyc EXCEPT !.outcome = "timeout", !.err = @ + 1]
    /\ UNCHANGED <<running, saved, mailbox, env, seen, imapConn, hourly, daily,
                   articles, nextTid, issued, files, total_emails_processed,
                   notif, deniedBy, attempted, manualLeft, webLeft, breaksLeft>>
    /\ UNCHANGED <<now, disk, uploads, conf, outbox, probe, domCache, armed,
                   rules, domCall, smtp_connection>>
    /\ attachments' = [attachments EXCEPT !["loop"] = <<>>]

\* check_emails_once is called
ManualStart ==
    /\ pc["manual"] = "idle"
    /\ manualLeft > 0
    /\ manualLeft' = manualLeft - 1
    /\ pc' = [pc EXCEPT !["manual"] = "fetch"]
    /\ UNCHANGED <<running, todo, batch, saved, chk, mailbox, env, seen, imapConn,
                   hourly, daily, articles, nextTid, issued, files,
                   errors_count, total_emails_processed, notif, deniedBy,
                   attempted, cyc, webLeft, breaksLeft>>
    /\ UNCHANGED <<now, disk, attachments, uploads, conf, outbox, probe, domCache,
                   armed, rules, domCall, smtp_connection>>

\* ------------------------------------------------ fetch_new_emails

\* check_imap_connection (noop, else disconnect and connect_imap), select,
\* search UNSEEN, and the for-loop up to its first await.  A failed connect
\* makes fetch_new_emails return [].
FetchStart(w) ==
    /\ pc[w] = "fetch"
    /\ \E connOk \in Ok("imap") :
         LET conn == IF imapConn = "ok" \/ connOk THEN "ok" ELSE imapConn
             cy == IF w = "loop"
                   THEN [outcome |-> "running", err |-> 0, recs |-> 0]
                   ELSE cyc
             ids == IF conn = "ok" THEN UnseenFrom(1, Len(mailbox), seen)
                    ELSE <<>>
         IN /\ imapConn' = conn
            /\ Continue(w, ids, seen, <<>>, conn, cy)
    /\ chk' = [chk EXCEPT ![w] = NoChk]
    /\ UNCHANGED <<running, saved, mailbox, env, hourly, daily, articles, nextTid,
                   issued, files, errors_count, total_emails_processed, notif,
                   deniedBy, attempted, manualLeft, webLeft, breaksLeft>>
    /\ UNCHANGED <<now, disk, attachments, uploads, conf, outbox, probe, domCache,
                   armed, rules, domCall, smtp_connection>>

\* _check_domain_allowed returned (a failed query counts as not allowed);
\* a message of a domain that is not allowed is flagged and skipped
DomReturn(w) ==
    /\ pc[w] = "dom"
    /\ LET m == Head(todo[w]) IN
       \E dbOk \in Ok("db") :
         IF dbOk /\ DomainAllowed(Sender(m))
         THEN /\ pc' = [pc EXCEPT ![w] = "rate_h"]
              /\ UNCHANGED <<todo, seen, batch, cyc, deniedBy>>
         ELSE /\ deniedBy' = [deniedBy EXCEPT ![m] =
                     IF imapConn = "ok" THEN "domain" ELSE "domain_lost"]
              /\ Continue(w, Tail(todo[w]), Flag(seen, m), batch[w], imapConn, cyc)
    /\ UNCHANGED <<running, saved, chk, mailbox, env, imapConn, hourly, daily,
                   articles, nextTid, issued, files, errors_count,
                   total_emails_processed, notif, attempted, manualLeft,
                   webLeft, breaksLeft>>
    /\ UNCHANGED <<now, disk, attachments, uploads, conf, outbox, probe, domCache,
                   armed, rules, domCall, smtp_connection>>

\* a get that fails closed: an unreadable count is taken as a full one
RedisGetClosed(up, value) == IF up THEN value ELSE EMAIL_DAILY_LIMIT

\* RedisService.get: None when Redis is not connected or the command fails
RedisGet(up, value) == IF up THEN value ELSE 0

\* _check_rate_limit, first half: redis_service.get(hourly key) or 0
RateH(w) ==
    /\ pc[w] = "rate_h"
    /\ LET k == HashEmail(Sender(Head(todo[w]))) IN
       \E up \in Ok("redis") :
         chk' = [chk EXCEPT ![w] = [hTrue |-> hourly[k], hUp |-> up,
                                    h |-> RedisGet(up, hourly[k]),
                                    dUp |-> TRUE, verdict |-> "none"]]
    /\ pc' = [pc EXCEPT ![w] = "rate_d"]
    /\ UNCHANGED <<running, todo, batch, saved, mailbox, env, seen, imapConn, hourly,
                   daily, articles, nextTid, issued, files, errors_count,
                   total_emails_processed, notif, deniedBy, attempted, cyc,
                   manualLeft, webLeft, breaksLeft>>
    /\ UNCHANGED <<now, disk, attachments, uploads, conf, outbox, probe, domCache,
                   armed, rules, domCall, smtp_connection>>

\* the verdict with the ceilings compared by > instead of >=
RateVerdictGt(h, d) ==
    IF h > EMAIL_HOURLY_LIMIT THEN "hourly_limit"
    ELSE IF d > EMAIL_DAILY_LIMIT THEN "daily_limit"
    ELSE "admitted"

\* _check_rate_limit: the verdict from the two counts read
RateVerdict(h, d) ==
    IF h >= EMAIL_HOURLY_LIMIT THEN "hourly_limit"
    ELSE IF d >= EMAIL_DAILY_LIMIT THEN "daily_limit"
    ELSE "admitted"

\* _check_rate_limit, second half (get of the daily key, verdict), then for
\* an admitted message the attachment parts: validated and written to disk
\* (_save_attachment may raise: the handler flags the message and goes on)
RateD(w) ==
    /\ pc[w] = "rate_d"
    /\ LET m == Head(todo[w])
           k == HashEmail(Sender(m))
       IN \E up \in Ok("redis"), saveOk \in Ok("disk") :
          LET v == RateVerdict(chk[w].h, RedisGet(up, daily[k])) IN
          /\ chk' = [chk EXCEPT ![w].dUp = up, ![w].verdict = v]
          /\ IF v # "admitted"
             THEN /\ deniedBy' = [deniedBy EXCEPT ![m] = "rate"]
                  /\ pc' = [pc EXCEPT ![w] = "notify"]
                  /\ UNCHANGED <<todo, seen, batch, cyc, files, disk, attachments>>
             ELSE LET r == StoreParts(mailbox[m].atts, 0, HashEmail(Sender(m)),
                                      saveOk, disk, <<>>, FALSE)
                  IN /\ deniedBy' = [deniedBy EXCEPT ![m] = "none"]
                     /\ disk' = r.disk
                     /\ files' = IF r.wrote THEN files \cup {m} ELSE files
                     /\ IF r.raised \/ r.attachments = <<>>
                        THEN /\ Continue(w, Tail(todo[w]), Flag(seen, m), batch[w],
                                         imapConn, cyc)
                             /\ UNCHANGED attachments
                        ELSE /\ attachments' = [attachments EXCEPT ![w] = r.attachments]
                             /\ pc' = [pc EXCEPT ![w] = "incr"]
                             /\ UNCHANGED <<todo, seen, batch, cyc>>
    /\ UNCHANGED <<running, saved, mailbox, env, imapConn, hourly, daily, articles,
                   nextTid, issued, errors_count, total_emails_processed, notif,
                   attempted, manualLeft, webLeft, breaksLeft>>
    /\ UNCHANGED <<now, uploads, conf, outbox, probe, domCache, armed, rules, domCall,
                   smtp_connection>>

\* send_limit_notification: disconnect_smtp is awaited after send_message
\* only; a failed connect_smtp and the except branch return without it
SendLimitNotification(conn, outcome) ==
    IF outcome = "ok" THEN "none" ELSE ConnectSmtp(conn, outcome)

\* send_limit_notification returned; the message is left unread
Notify(w) ==
    /\ pc[w] = "notify"
    /\ LET m == Head(todo[w])
           k == HashEmail(Sender(m))
       IN /\ attempted' = attempted \cup {m}
          /\ \E outcome \in SmtpOutcomes :
               LET smtpOk == outcome = "ok" IN
               /\ smtp_connection' = SendLimitNotification(smtp_connection, outcome)
               /\ notif' = IF smtpOk
                           THEN [notif EXCEPT ![k] = Min(@ + 1, MaxNotif)]
                           ELSE notif
               /\ outbox' = IF smtpOk
                            THEN outbox \cup {[to |-> Sender(m), kind |-> "limit",
                                               tracker_id |-> 0]}
                            ELSE outbox
          /\ Continue(w, Tail(todo[w]), seen, batch[w], imapConn, cyc)
    /\ chk' = [chk EXCEPT ![w] = NoChk]
    /\ UNCHANGED <<running, saved, mailbox, env, imapConn, hourly, daily, articles,
                   nextTid, issued, files, errors_count, total_emails_processed,
                   deniedBy, manualLeft, webLeft, breaksLeft>>
    /\ UNCHANGED <<now, disk, attachments, uploads, conf, probe, domCache, armed,
                   rules, domCall>>

\* RedisService.incr: no effect when Redis is not connected
RedisIncr(up, value) == IF up THEN value + 1 ELSE value

\* RedisService.expire: the TTL of the key starts anew at the time of the
\* call; no effect when Redis is not connected
RedisExpire(up, t, at) == IF up THEN at ELSE t

\* _increment_rate_limit returned (incr and expire of the hourly key, then
\* of the daily key); the record joins processed_emails and the message is
\* flagged
Incr(w) ==
    /\ pc[w] = "incr"
    /\ LET m == Head(todo[w])
           k == HashEmail(Sender(m))
       IN /\ \E upH, upD \in Ok("redis") :
               /\ hourly' = [hourly EXCEPT ![k] = RedisIncr(upH, @)]
               /\ daily' = [daily EXCEPT ![k] = RedisIncr(upD, @)]
               /\ armed' = [armed EXCEPT
                              ![k].h = RedisExpire(upH, @, now),
                              ![k].d = RedisExpire(upD, @, now)]
          /\ Continue(w, Tail(todo[w]), Flag(seen, m),
                      Append(batch[w], [src |-> m, attachments |-> attachments[w]]),
                      imapConn, cyc)
    /\ attachments' = [attachments EXCEPT ![w] = <<>>]
    /\ chk' = [chk EXCEPT ![w] = NoChk]
    /\ UNCHANGED <<running, saved, mailbox, env, imapConn, articles, nextTid, issued,
                   files, errors_count, total_emails_processed, notif, deniedBy,
                   attempted, manualLeft, webLeft, breaksLeft>>
    /\ UNCHANGED <<now, disk, uploads, conf, outbox, probe, domCache, rules, domCall,
                   smtp_connection>>

\* ------------------------------------------------ save_email_records

\* generate_tracker_id: uuid4 and clock digits.  Ids are numbered in the
\* order of their first generation; a repeated value is an id already used.
FreshIds(n) == (nextTid + 1)..(nextTid + n)

\* TrackerIds of the rows of the articles table
UsedIds == {a.tracker_id : a \in articles}

\* the attachments of processed_emails bt, in the order save_email_records
\* walks them, each with the message it came from
RECURSIVE Flatten(_)
Flatten(bt) ==
    IF bt = <<>> THEN <<>>
    ELSE [i \in 1..Len(Head(bt).attachments) |->
            [src |-> Head(bt).src, att |-> Head(bt).attachments[i]]]
         \o Flatten(Tail(bt))

\* the Article rows save_email_records adds for processed_emails bt,
\* one per stored attachment, numbered from the first fresh tracker id
NewArticles(bt) ==
    LET f == Flatten(bt) IN
    {[tracker_id |-> nextTid + i, src |-> f[i].src, method |-> "email_upload",
      processing_status |-> "pending",
      github_url |-> f[i].att.stored_filename,
      file_size |-> f[i].att.file_size] : i \in 1..Len(f)}

\* the EmailUpload rows with every status set to processing
NewUploadsProcessing(bt) ==
    LET f == Flatten(bt) IN
    {[id |-> nextTid + i, src |-> f[i].src,
      stored_filename |-> f[i].att.stored_filename,
      file_size |-> f[i].att.file_size,
      status |-> "processing", processed_at |-> NoTime] : i \in 1..Len(f)}

\* the EmailUpload rows save_email_records adds, one per stored attachment
\* (id: the number of the tracker id generated next to the row)
NewUploads(bt) ==
    LET f == Flatten(bt) IN
    {[id |-> nextTid + i, src |-> f[i].src,
      stored_filename |-> f[i].att.stored_filename,
      file_size |-> f[i].att.file_size,
      status |-> "pending", processed_at |-> NoTime] : i \in 1..Len(f)}

\* the unique constraint of articles.github_url ("email://<stored name>")
\* holds for the new rows
UniqueUrls(bt) ==
    LET f == Flatten(bt) IN
    /\ \A i, j \in 1..Len(f) :
          i # j => f[i].att.stored_filename # f[j].att.stored_filename
    /\ \A i \in 1..Len(f) :
          \A a \in articles : a.github_url # f[i].att.stored_filename

\* a cycle end that lets the check task finish instead of sleeping
RestEndsTask(w) == IF w = "loop" THEN "off" ELSE "idle"

\* the cycle of w is over: back to the sleep of the loop, or the manual
\* check returns
Rest(w) == IF w = "loop" THEN "sleep" ELSE "idle"

\* save_email_records: db.commit() returned.  A failed commit (a tracker id
\* or github_url that violates its unique constraint, a database error)
\* rolls back and raises: both callers count one error (the counter of the
\* model stops at MaxErrors).
Commit(w) ==
    /\ pc[w] = "commit"
    /\ \/ /\ UniqueUrls(batch[w])
          /\ articles' = articles \cup NewArticles(batch[w])
          /\ uploads' = uploads \cup NewUploads(batch[w])
          /\ nextTid' = nextTid + Len(Flatten(batch[w]))
          /\ conf' = [conf EXCEPT ![w] =
                        [NoConf EXCEPT !.records = FreshIds(Len(Flatten(batch[w])))]]
          /\ cyc' = IF w = "loop"
                    THEN [cyc EXCEPT !.recs = @ + Len(Flatten(batch[w])),
                                     !.outcome = IF AUTO_REPLY_ENABLED /\ TRACKER_EMAIL_ENABLED
                                                 THEN @ ELSE "ok"]
                    ELSE cyc
          /\ IF AUTO_REPLY_ENABLED /\ TRACKER_EMAIL_ENABLED
             THEN /\ saved' = [saved EXCEPT ![w] = FreshIds(Len(Flatten(batch[w])))]
                  /\ pc' = [pc EXCEPT ![w] = "confirm"]
                  /\ UNCHANGED <<batch, total_emails_processed>>
             ELSE /\ total_emails_processed' = total_emails_processed + Len(batch[w])
                  /\ batch' = [batch EXCEPT ![w] = <<>>]
                  /\ pc' = [pc EXCEPT ![w] = Rest(w)]
                  /\ UNCHANGED saved
          /\ UNCHANGED errors_count
       \/ /\ ~UniqueUrls(batch[w]) \/ ("db" \in env /\ errors_count < MaxErrors)
          /\ errors_count' = Min(errors_count + 1, MaxErrors)
          /\ batch' = [batch EXCEPT ![w] = <<>>]
          /\ pc' = [pc EXCEPT ![w] = Rest(w)]
          /\ cyc' = IF w = "loop"
                    THEN [cyc EXCEPT !.outcome = "error", !.err = @ + 1]
                    ELSE cyc
          /\ UNCHANGED <<articles, uploads, nextTid, saved, conf,
                         total_emails_processed>>
    /\ UNCHANGED <<running, todo, chk, mailbox, env, seen, imapConn, hourly, daily,
                   issued, files, notif, deniedBy, attempted, manualLeft,
                   webLeft, breaksLeft>>
    /\ UNCHANGED <<now, disk, attachments, outbox, probe, domCache, armed,
                   rules, domCall, smtp_connection>>

\* the loop of _send_confirmation_emails given up at the first failure
AttemptsUntilFailure(recs) == {t \in recs : \A u \in recs : t <= u}

\* the for-loop of _send_confirmation_emails: a failed or raising send is
\* logged and the loop goes on, so every record has its send called
Attempts(recs) == recs

\* TrackerService.send_tracker_confirmation_email: the messages it hands to
\* the SMTP connection.  get_tracker_confirmation_email is a coroutine
\* function called without await; subscripting the coroutine object raises
\* TypeError, the handler returns False, and send_message is never reached.
SendTrackerConfirmationEmail(t, to) == {}

\* the end of a cycle that saved records: the caller adds
\* len(email_records) to the statistics
EndSaved(w) ==
    /\ total_emails_processed' = total_emails_processed + Len(batch[w])
    /\ batch' = [batch EXCEPT ![w] = <<>>]
    /\ saved' = [saved EXCEPT ![w] = {}]
    /\ pc' = [pc EXCEPT ![w] = Rest(w)]
    /\ cyc' = IF w = "loop" THEN EndCyc(cyc, "ok") ELSE cyc

\* _send_confirmation_emails: connect_smtp returned.  Without a connection
\* nothing is sent; with one, the send of every saved record is called and
\* disconnect_smtp is awaited.
Confirm(w) ==
    /\ pc[w] = "confirm"
    /\ \E outcome \in SmtpOutcomes \ {"send"} :
         IF outcome = "ok"
         THEN /\ smtp_connection' = ConnectSmtp(smtp_connection, outcome)
              /\ conf' = [conf EXCEPT ![w].opened = @ + 1,
                                      ![w].tried = Attempts(conf[w].records)]
              /\ outbox' = outbox \cup
                     UNION {SendTrackerConfirmationEmail(a.tracker_id, Sender(a.src)) :
                              a \in {x \in articles :
                                       x.tracker_id \in Attempts(conf[w].records)}}
              /\ pc' = [pc EXCEPT ![w] = "quit"]
              /\ UNCHANGED <<batch, saved, cyc, total_emails_processed>>
         ELSE /\ smtp_connection' = ConnectSmtp(smtp_connection, outcome)
              /\ EndSaved(w)
              /\ UNCHANGED <<conf, outbox>>
    /\ UNCHANGED <<running, todo, chk, mailbox, env, seen, imapConn, hourly, daily,
                   articles, nextTid, issued, files, errors_count, notif, deniedBy,
                   attempted, manualLeft, webLeft, breaksLeft>>
    /\ UNCHANGED <<now, disk, attachments, uploads, probe, domCache, armed,
                   rules, domCall>>

\* _send_confirmation_emails: disconnect_smtp returned, and the cycle ends
ConfirmDone(w) ==
    /\ pc[w] = "quit"
    /\ conf' = [conf EXCEPT ![w].closed = @ + 1]
    /\ smtp_connection' = "none"
    /\ EndSaved(w)
    /\ UNCHANGED <<running, todo, chk, mailbox, env, seen, imapConn, hourly, daily,
                   articles, nextTid, issued, files, errors_count, notif, deniedBy,
                   attempted, manualLeft, webLeft, breaksLeft>>
    /\ UNCHANGED <<now, disk, attachments, uploads, outbox, probe, domCache, armed,
                   rules, domCall>>

\* --------------------------------------------------------- web upload

\* upload_file (api.py): the tracker id is generated, the Article is
\* committed inside a try whose except only logs, and the id is returned
\* in the response either way
UploadFile ==
    /\ webLeft > 0
    /\ webLeft' = webLeft - 1
    /\ \/ /\ articles' = articles \cup
                 {[tracker_id |-> nextTid + 1, src |-> 0, method |-> "web_upload",
                   processing_status |-> "completed",
                   github_url |-> StoredFilename(0 - (nextTid + 1), "web_upload", <<>>),
                   file_size |-> 1]}
          /\ nextTid' = nextTid + 1
          /\ issued' = issued \cup {nextTid + 1}
       \/ /\ "db" \in env
          /\ nextTid' = nextTid + 1
          /\ issued' = issued \cup {nextTid + 1}
          /\ UNCHANGED articles
       \/ /\ \E t \in UsedIds : issued' = issued \cup {t}
          /\ UNCHANGED <<articles, nextTid>>
    /\ UNCHANGED <<running, pc, todo, batch, saved, chk, mailbox, env, seen, imapConn,
                   hourly, daily, files, errors_count, total_emails_processed,
                   notif, deniedBy, attempted, cyc, manualLeft, breaksLeft>>
    /\ UNCHANGED <<now, disk, attachments, uploads, conf, outbox, probe, domCache,
                   armed, rules, domCall, smtp_connection>>

\* TrackerService.get_tracker_status: the rows with that tracker id
Lookup(t) == {a \in articles : a.tracker_id = t}

\* the letter cases a tracker id can be written in ("TRK-1A2B...",
\* "trk-1a2b...", "Trk-1a2B...")
LetterCases == {"upper", "lower", "mixed"}

\* the text of tracker id t written in a letter case
TrackerText(t, form) == [id |-> t, form |-> form]

\* generate_tracker_id returns tracker_id.upper(): the text in the column
StoredTrackerText(a) == TrackerText(a.tracker_id, "upper")

\* TrackerService.get_tracker_status with the text of the request, which
\* the routes pass on unchanged: Article.tracker_id == tracker_id
GetTrackerStatus(q) == {a \in articles : StoredTrackerText(a) = q}

\* ------------------------------------------- review and maintenance

\* EmailUploadStatus
EmailUploadStatus == {"pending", "approved", "rejected", "processing"}

\* update_upload_status (PUT /uploads/{id}/status, both routers): the row
\* takes the status of the request and processed_at takes the clock
UpdateUploadStatus(u, status) ==
    /\ u \in uploads
    /\ uploads' = (uploads \ {u}) \cup
                     {[u EXCEPT !.status = status, !.processed_at = now]}
    /\ UNCHANGED <<running, pc, todo, batch, saved, chk, mailbox, env, seen, imapConn,
                   hourly, daily, articles, nextTid, issued, files, errors_count,
                   total_emails_processed, notif, deniedBy, attempted, cyc,
                   manualLeft, webLeft, breaksLeft>>
    /\ UNCHANGED <<now, disk, attachments, conf, outbox, probe, domCache, armed,
                   rules, domCall, smtp_connection>>

\* the selection cut down to one row a run
OldUploadsOfOne(upl, cutoff) ==
    {u \in upl : /\ u.status = "rejected"
                 /\ u.processed_at # NoTime
                 /\ u.processed_at < cutoff
                 /\ \A v \in upl :
                       (v.status = "rejected" /\ v.processed_at # NoTime
                          /\ v.processed_at < cutoff) => u.id <= v.id}

\* _cleanup_old_uploads: the rows of upl selected for deletion (a NULL
\* processed_at never compares below the cutoff)
OldUploadsOf(upl, cutoff) ==
    {u \in upl : /\ u.status = "rejected"
                 /\ u.processed_at # NoTime
                 /\ u.processed_at < cutoff}

\* the rows of the table selected for deletion
OldUploads(cutoff) == OldUploadsOf(uploads, cutoff)

\* AttachmentService.delete_attachment of every name of names
DeleteAttachments(dsk, names) == {f \in dsk : f.name \notin names}

\* AttachmentService.cleanup_old_attachments: every file of the upload
\* directory whose mtime is before the cutoff is unlinked
CleanupOldAttachments(dsk, cutoff) == {f \in dsk : ~(f.mtime < cutoff)}

\* _run_maintenance_tasks on the rows upl and the files dsk at time t.
\* _cleanup_old_rate_limits deletes from a table no code writes to.
\* _cleanup_old_uploads selects the old rejected rows, deletes their files,
\* then deletes the rows and commits; a failure of the select (selOk) or of
\* the delete (delOk) is logged only.  cleanup_old_attachments(days_old=30)
\* follows, then clear_all_domain_cache, which only logs that it needs
\* pattern deletion and removes no key.  Every step catches its own
\* exceptions, so the task raises nothing.
Maintain(upl, dsk, t, selOk, delOk) ==
    LET cutoff == t - RETENTION
        old == IF selOk THEN OldUploadsOf(upl, cutoff) ELSE {}
        d1 == DeleteAttachments(dsk, {u.stored_filename : u \in old})
    IN [uploads |-> IF delOk THEN upl \ old ELSE upl,
        disk |-> CleanupOldAttachments(d1, cutoff),
        raised |-> FALSE]

\* one pass of the maintenance loop
RunMaintenanceTasks ==
    /\ running
    /\ \E selOk, delOk \in Ok("db") :
         LET r == Maintain(uploads, disk, now, selOk, delOk) IN
         /\ uploads' = r.uploads
         /\ disk' = r.disk
    /\ UNCHANGED <<running, pc, todo, batch, saved, chk, mailbox, env, seen, imapConn,
                   hourly, daily, articles, nextTid, issued, files, errors_count,
                   total_emails_processed, notif, deniedBy, attempted, cyc,
                   manualLeft, webLeft, breaksLeft>>
    /\ UNCHANGED <<now, attachments, conf, outbox, probe, domCache, armed,
                   rules, domCall, smtp_connection>>

\* ------------------------------------------------ validation functions

\* A sender address as the checks see it: whether it matches the pattern of
\* _is_valid_email ("a!b@allowed.com" does not), the lowercased text behind
\* the last '@', and whether that text was written with capitals.
Address(syntax, domain, upper) == [syntax |-> syntax, domain |-> domain, upper |-> upper]

Addresses ==
    {Address(sy, d, up) : sy \in {"ok", "bad"}, d \in Domains, up \in BOOLEAN}

\* DomainService._is_valid_email
IsValidEmail(addr) == addr.syntax = "ok"

\* _extract_domain of both services: split('@')[-1].lower()
ExtractDomainOf(addr) == addr.domain

\* the verdict of the rules: the row of EmailDomainRule for the domain, no
\* row is a refusal; the configured list outside whitelist mode
RuleVerdict(domain) ==
    IF EMAIL_DOMAIN_WHITELIST_ENABLED
    THEN IF domain \in DOMAIN EmailDomainRule THEN EmailDomainRule[domain] ELSE FALSE
    ELSE domain \in EMAIL_ALLOWED_DOMAINS

\* DomainService._get_cached_domain_rule: None without Redis or on a miss
GetCachedDomainRule(cache, domain, redisOk) ==
    IF redisOk THEN cache[domain] ELSE "none"

\* DomainService._cache_domain_rule: nothing is written without Redis
CacheDomainRule(cache, domain, is_allowed, redisOk) ==
    IF redisOk
    THEN [cache EXCEPT ![domain] = IF is_allowed THEN "allowed" ELSE "blocked"]
    ELSE cache

\* DomainService.check_domain_allowed: verdict and cache afterwards
DomainServiceCheck(addr, cache, redisOk) ==
    IF ~IsValidEmail(addr)
    THEN [allowed |-> FALSE, cache |-> cache]
    ELSE LET domain == ExtractDomainOf(addr)
             cached == GetCachedDomainRule(cache, domain, redisOk)
         IN IF cached # "none"
            THEN [allowed |-> cached = "allowed", cache |-> cache]
            ELSE [allowed |-> RuleVerdict(domain),
                  cache |-> CacheDomainRule(cache, domain, RuleVerdict(domain), redisOk)]

\* EmailService._check_domain_allowed, the check fetch_new_emails calls:
\* the rules are asked every time, whatever the syntax of the address
EmailServiceCheck(addr) == RuleVerdict(ExtractDomainOf(addr))

\* a call of DomainService.check_domain_allowed
CheckDomainAllowed(addr) ==
    /\ \E redisOk \in Ok("redis") :
         LET r == DomainServiceCheck(addr, domCache, redisOk) IN
         /\ probe' = [kind |-> "domain_service", addr |-> addr, redis |-> redisOk,
                      cached |-> GetCachedDomainRule(domCache, ExtractDomainOf(addr), redisOk),
                      allowed |-> r.allowed]
         /\ domCache' = r.cache
    /\ UNCHANGED <<running, pc, todo, batch, saved, chk, mailbox, env, seen, imapConn,
                   hourly, daily, articles, nextTid, issued, files, errors_count,
                   total_emails_processed, notif, deniedBy, attempted, cyc,
                   manualLeft, webLeft, breaksLeft>>
    /\ UNCHANGED <<now, disk, attachments, uploads, conf, outbox, armed, rules, domCall,
                   smtp_connection>>

\* a call of EmailService._check_domain_allowed
CheckDomainAllowedInFetch(addr) ==
    /\ probe' = [kind |-> "email_service", addr |-> addr, redis |-> TRUE,
                 cached |-> "none", allowed |-> EmailServiceCheck(addr)]
    /\ UNCHANGED <<running, pc, todo, batch, saved, chk, mailbox, env, seen, imapConn,
                   hourly, daily, articles, nextTid, issued, files, errors_count,
                   total_emails_processed, notif, deniedBy, attempted, cyc,
                   manualLeft, webLeft, breaksLeft>>
    /\ UNCHANGED <<now, disk, attachments, uploads, conf, outbox, domCache, armed,
                   rules, domCall, smtp_connection>>

\* the key domain_rule:<domain> expires (setex with cache_expire)
DomainCacheExpire(d) ==
    /\ domCache[d] # "none"
    /\ domCache' = [domCache EXCEPT ![d] = "none"]
    /\ UNCHANGED <<running, pc, todo, batch, saved, chk, mailbox, env, seen, imapConn,
                   hourly, daily, articles, nextTid, issued, files, errors_count,
                   total_emails_processed, notif, deniedBy, attempted, cyc,
                   manualLeft, webLeft, breaksLeft>>
    /\ UNCHANGED <<now, disk, attachments, uploads, conf, outbox, probe, armed,
                   rules, domCall, smtp_connection>>

\* ---- DomainService call by call: each await is a point where another
\* request of the server runs

\* the verdict of the rows tbl for a domain (check_domain_allowed, 101-126)
RuleVerdictOf(tbl, domain) ==
    IF EMAIL_DOMAIN_WHITELIST_ENABLED
    THEN tbl[domain] = "allowed"
    ELSE domain \in EMAIL_ALLOWED_DOMAINS

\* redis_service.cache_delete of _clear_domain_cache: nothing without Redis
ClearDomainCacheOf(cache, domain, redisOk) ==
    IF redisOk THEN [cache EXCEPT ![domain] = "none"] ELSE cache

\* what check_domain_allowed returns for a domain when it runs from its
\* first line to its return on the cache and the rows as they are
CheckNow(domain) ==
    LET cached == GetCachedDomainRule(domCache, domain, TRUE) IN
    IF cached # "none" THEN cached = "allowed" ELSE RuleVerdictOf(rules, domain)

\* check_domain_allowed up to the answer of the cache: a hit is returned,
\* a miss goes on to the query
CheckDomainGet(addr) ==
    /\ domCall.check.pc = "idle"
    /\ IsValidEmail(addr)
    /\ \E redisOk \in Ok("redis") :
         GetCachedDomainRule(domCache, ExtractDomainOf(addr), redisOk) = "none"
    /\ domCall' = [domCall EXCEPT !.check.pc = "select",
                                  !.check.domain = ExtractDomainOf(addr)]
    /\ UNCHANGED <<running, pc, todo, batch, saved, chk, mailbox, env, seen, imapConn,
                   hourly, daily, articles, nextTid, issued, files, errors_count,
                   total_emails_processed, notif, deniedBy, attempted, cyc,
                   manualLeft, webLeft, breaksLeft>>
    /\ UNCHANGED <<now, disk, attachments, uploads, conf, outbox, probe, domCache,
                   armed, rules, smtp_connection>>

\* the query of check_domain_allowed is answered: is_allowed is taken from
\* the row; a failed query is the refusal of the except branch
CheckDomainSelect ==
    /\ domCall.check.pc = "select"
    /\ \E dbOk \in Ok("db") :
         domCall' = IF dbOk
                    THEN [domCall EXCEPT
                            !.check.pc = "cache",
                            !.check.is_allowed = RuleVerdictOf(rules, domCall.check.domain)]
                    ELSE [domCall EXCEPT !.check = NoDomCall.check]
    /\ UNCHANGED <<running, pc, todo, batch, saved, chk, mailbox, env, seen, imapConn,
                   hourly, daily, articles, nextTid, issued, files, errors_count,
                   total_emails_processed, notif, deniedBy, attempted, cyc,
                   manualLeft, webLeft, breaksLeft>>
    /\ UNCHANGED <<now, disk, attachments, uploads, conf, outbox, probe, domCache,
                   armed, rules, smtp_connection>>

\* _cache_domain_rule of check_domain_allowed, and its return
CheckDomainCache ==
    /\ domCall.check.pc = "cache"
    /\ \E redisOk \in Ok("redis") :
         domCache' = CacheDomainRule(domCache, domCall.check.domain,
                                     domCall.check.is_allowed, redisOk)
    /\ domCall' = [domCall EXCEPT !.check = NoDomCall.check]
    /\ UNCHANGED <<running, pc, todo, batch, saved, chk, mailbox, env, seen, imapConn,
                   hourly, daily, articles, nextTid, issued, files, errors_count,
                   total_emails_processed, notif, deniedBy, attempted, cyc,
                   manualLeft, webLeft, breaksLeft>>
    /\ UNCHANGED <<now, disk, attachments, uploads, conf, outbox, probe, armed,
                   rules, smtp_connection>>

\* add_domain_rule up to its commit: the row is updated or inserted; a
\* failed commit is rolled back and the call returns
AddDomainRule(domain, is_allowed) ==
    /\ domCall.change.pc = "idle"
    /\ \E dbOk \in Ok("db") :
         IF dbOk
         THEN /\ rules' = [rules EXCEPT
                             ![domain] = IF is_allowed THEN "allowed" ELSE "blocked"]
              /\ domCall' = [domCall EXCEPT !.change.pc = "clear",
                                            !.change.domain = domain]
         ELSE UNCHANGED <<rules, domCall>>
    /\ UNCHANGED <<running, pc, todo, batch, saved, chk, mailbox, env, seen, imapConn,
                   hourly, daily, articles, nextTid, issued, files, errors_count,
                   total_emails_processed, notif, deniedBy, attempted, cyc,
                   manualLeft, webLeft, breaksLeft>>
    /\ UNCHANGED <<now, disk, attachments, uploads, conf, outbox, probe, domCache,
                   armed, smtp_connection>>

\* remove_domain_rule up to its commit: without a row (rowcount 0) the call
\* returns at once
RemoveDomainRule(domain) ==
    /\ domCall.change.pc = "idle"
    /\ rules[domain] # "none"
    /\ \E dbOk \in Ok("db") :
         IF dbOk
         THEN /\ rules' = [rules EXCEPT ![domain] = "none"]
              /\ domCall' = [domCall EXCEPT !.change.pc = "clear",
                                            !.change.domain = domain]
         ELSE UNCHANGED <<rules, domCall>>
    /\ UNCHANGED <<running, pc, todo, batch, saved, chk, mailbox, env, seen, imapConn,
                   hourly, daily, articles, nextTid, issued, files, errors_count,
                   total_emails_processed, notif, deniedBy, attempted, cyc,
                   manualLeft, webLeft, breaksLeft>>
    /\ UNCHANGED <<now, disk, attachments, uploads, conf, outbox, probe, domCache,
                   armed, smtp_connection>>

\* _clear_domain_cache after the commit, and the return of the call
ClearDomainCache ==
    /\ domCall.change.pc = "clear"
    /\ \E redisOk \in Ok("redis") :
         domCache' = ClearDomainCacheOf(domCache, domCall.change.domain, redisOk)
    /\ domCall' = [domCall EXCEPT
                     !.change = NoDomCall.change,
                     !.completed = @ \cup {domCall.change.domain}]
    /\ UNCHANGED <<running, pc, todo, batch, saved, chk, mailbox, env, seen, imapConn,
                   hourly, daily, articles, nextTid, issued, files, errors_count,
                   total_emails_processed, notif, deniedBy, attempted, cyc,
                   manualLeft, webLeft, breaksLeft>>
    /\ UNCHANGED <<now, disk, attachments, uploads, conf, outbox, probe, armed,
                   rules, smtp_connection>>

\* the tokens of the file names the validations are called with
FileTokens == {".", "/", "secret", "pdf", "exe"}

\* the file names of at most MaxName tokens
FileNames == UNION {[1..n -> FileTokens] : n \in 0..MaxName}

\* payload sizes (KB): empty, 1KB, and one above the ceiling
FileSizes == {0, 1, EMAIL_MAX_ATTACHMENT_SIZE + 1}

\* one attachment part is validated: by _validate_attachment, which
\* fetch_new_emails calls, and by AttachmentService.validate_attachment
ValidatePart(fn, size) ==
    /\ probe = NoProbe
    /\ probe' = [kind |-> "file", name |-> fn, size |-> size,
                 email_service |-> ValidateAttachment(fn, size),
                 attachment_service |-> AttachmentServiceValidate(fn, size)]
    /\ UNCHANGED <<running, pc, todo, batch, saved, chk, mailbox, env, seen, imapConn,
                   hourly, daily, articles, nextTid, issued, files, errors_count,
                   total_emails_processed, notif, deniedBy, attempted, cyc,
                   manualLeft, webLeft, breaksLeft>>
    /\ UNCHANGED <<now, disk, attachments, uploads, conf, outbox, domCache, armed,
                   rules, domCall, smtp_connection>>

\* -------------------------------------------------------- environment

\* the wall clock moves on to the next tick
Tick ==
    /\ now < MaxTime
    /\ now' = now + 1
    /\ UNCHANGED <<running, pc, todo, batch, saved, chk, mailbox, env, seen, imapConn,
                   hourly, daily, articles, nextTid, issued, files, errors_count,
                   total_emails_processed, notif, deniedBy, attempted, cyc,
                   manualLeft, webLeft, breaksLeft>>
    /\ UNCHANGED <<disk, attachments, uploads, conf, outbox, probe, domCache,
                   armed, rules, domCall, smtp_connection>>

\* the mailbox connection drops
BreakConn ==
    /\ "imap" \in env
    /\ imapConn = "ok"
    /\ breaksLeft > 0
    /\ breaksLeft' = breaksLeft - 1
    /\ imapConn' = "broken"
    /\ UNCHANGED <<running, pc, todo, batch, saved, chk, mailbox, env, seen, hourly,
                   daily, articles, nextTid, issued, files, errors_count,
                   total_emails_processed, notif, deniedBy, attempted, cyc,
                   manualLeft, webLeft>>
    /\ UNCHANGED <<now, disk, attachments, uploads, conf, outbox, probe, domCache,
                   armed, rules, domCall, smtp_connection>>

\* the hourly key of a sender expires: the hourly window resets
HourlyExpire(k) ==
    /\ hourly[k] > 0
    /\ hourly' = [hourly EXCEPT ![k] = 0]
    /\ notif' = [notif EXCEPT ![k] = 0]
    /\ armed' = [armed EXCEPT ![k].h = NoTime]
    /\ UNCHANGED <<running, pc, todo, batch, saved, chk, mailbox, env, seen, imapConn,
                   daily, articles, nextTid, issued, files, errors_count,
                   total_emails_processed, deniedBy, attempted, cyc, manualLeft,
                   webLeft, breaksLeft>>
    /\ UNCHANGED <<now, disk, attachments, uploads, conf, outbox, probe, domCache,
                   rules, domCall, smtp_connection>>

\* the daily key of a sender expires
DailyExpire(k) ==
    /\ daily[k] > 0
    /\ daily' = [daily EXCEPT ![k] = 0]
    /\ armed' = [armed EXCEPT ![k].d = NoTime]
    /\ UNCHANGED <<running, pc, todo, batch, saved, chk, mailbox, env, seen, imapConn,
                   hourly, articles, nextTid, issued, files, errors_count,
                   total_emails_processed, notif, deniedBy, attempted, cyc,
                   manualLeft, webLeft, breaksLeft>>
    /\ UNCHANGED <<now, disk, attachments, uploads, conf, outbox, probe, domCache,
                   rules, domCall, smtp_connection>>

\* ------------------------------------------------------ specification

\* the steps of the scheduled check task
LoopStep ==
    \/ SleepDone
    \/ FetchStart("loop")
    \/ DomReturn("loop")
    \/ RateH("loop")
    \/ RateD("loop")
    \/ Notify("loop")
    \/ Incr("loop")
    \/ Commit("loop")
    \/ Confirm("loop")
    \/ ConfirmDone("loop")

\* the steps of a manual check
ManualStep ==
    \/ FetchStart("manual")
    \/ DomReturn("manual")
    \/ RateH("manual")
    \/ RateD("manual")
    \/ Notify("manual")
    \/ Incr("manual")
    \/ Commit("manual")
    \/ Confirm("manual")
    \/ ConfirmDone("manual")

\* ---- the scheduled task, a manual check, timeouts and stops

SchedScenarios ==
    { Scn(<<Msg("a1", 1)>>, NoCounts, {}),
      Scn(<<Msg("a1", 1), Msg("a2", 1)>>, NoCounts, {"db"}),
      Scn(<<Msg("a1", 1)>>, [NoCounts EXCEPT !["a1"] = Cnt(5, 5)], {"smtp"}),
      Scn(<<Msg("a1", 1)>>, NoCounts, {"imap"}),
      Scn(<<Msg("a1", 1)>>, NoCounts, {"disk"}) }

SchedInit == \E c \in SchedScenarios : InitScn(c)

SchedNext ==
    \/ StartEmailChecking
    \/ StopEmailChecking
    \/ Timeout
    \/ ManualStart
    \/ LoopStep
    \/ ManualStep
    \/ BreakConn

Spec == SchedInit /\ [][SchedNext]_vars

\* the event loop runs a task that is ready, and the sleep ends
FairSpec == Spec /\ WF_vars(LoopStep)

\* ---- admission: domain rules, rate counters, limit notifications

RateScenarios ==
    { Scn(<<Msg("a1", 1), Msg("a1", 1)>>, [NoCounts EXCEPT !["a1"] = Cnt(4, 4)], {}),
      Scn(<<Msg("a1", 1), Msg("a2", 1)>>,
          [NoCounts EXCEPT !["a1"] = Cnt(5, 5), !["a2"] = Cnt(4, 4)], {"redis"}),
      Scn(<<Msg("a1", 1), Msg("a1", 0)>>, [NoCounts EXCEPT !["a1"] = Cnt(5, 5)], {"smtp"}),
      Scn(<<Msg("a1", 1)>>, [NoCounts EXCEPT !["a1"] = Cnt(0, 20)], {"redis"}),
      Scn(<<Msg("b1", 1), Msg("a1", 1)>>, [NoCounts EXCEPT !["a1"] = Cnt(5, 5)], {}),
      Scn(<<Msg("sys", 1), Msg("b1", 1)>>, [NoCounts EXCEPT !["a1"] = Cnt(4, 4)], {"imap"}) }

RateInit == \E c \in RateScenarios : InitScn(c)

RateNext ==
    \/ StartEmailChecking
    \/ LoopStep
    \/ BreakConn
    \/ \E k \in RateSenders : HourlyExpire(k)
    \/ \E k \in RateSenders : DailyExpire(k)

RateSpec == RateInit /\ [][RateNext]_vars

\* ---- tracker ids: email records, web uploads, lookups

TrackScenarios ==
    { Scn(<<Msg("a1", 1), Msg("a2", 1)>>, NoCounts, {"db", "smtp"}),
      Scn(<<Msg("a1", 1), Msg("b1", 1)>>, [NoCounts EXCEPT !["a1"] = Cnt(5, 5)], {}) }

TrackInit == \E c \in TrackScenarios : InitScn(c)

TrackNext ==
    \/ StartEmailChecking
    \/ LoopStep
    \/ UploadFile

TrackSpec == TrackInit /\ [][TrackNext]_vars

\* ---- stored files, upload rows, review and maintenance

StoreScenarios ==
    { Scn(<<Mail("a1", <<Att(Pdf("scan"), 1), Att(Pdf("scan"), 2)>>)>>, NoCounts, {}),
      Scn(<<Mail("a1", <<Att(Pdf("doc"), 1)>>), Mail("a1", <<Att(Pdf("doc"), 2)>>)>>,
          NoCounts, {}),
      Scn(<<Mail("a2", <<Att(Pdf("doc"), 1), Att(Pdf("scan"), 2)>>)>>, NoCounts, {"db"}),
      Scn(<<Mail("a1", <<Att(Pdf("doc"), 1)>>), Mail("a2", <<Att(Pdf("doc"), 1)>>)>>,
          [NoCounts EXCEPT !["a1"] = Cnt(5, 5)], {"smtp"}) }

StoreInit == \E c \in StoreScenarios : InitScn(c)

StoreNext ==
    \/ StartEmailChecking
    \/ LoopStep
    \/ Tick
    \/ RunMaintenanceTasks
    \/ \E u \in uploads, status \in EmailUploadStatus : UpdateUploadStatus(u, status)

StoreSpec == StoreInit /\ [][StoreNext]_vars

\* ---- one scheduled task from the mailbox to the confirmation phase

\* the message of Scenario A: a sender of an allowed domain, one .pdf of 1KB
ScenarioAMailbox == <<Mail("a1", <<Att(Pdf("doc"), 1)>>)>>

FlowScenarios ==
    { Scn(ScenarioAMailbox, NoCounts, {}),
      Scn(<<Mail("a1", <<Att(Pdf("doc"), 1), Att(Pdf("scan"), 2)>>)>>, NoCounts, {}),
      Scn(<<Mail("a2", <<Att(Pdf("doc"), 1), Att(Pdf("scan"), 2)>>),
            Mail("a1", <<Att(Pdf("doc"), 1)>>)>>, NoCounts, {"smtp"}),
      Scn(<<Mail("a1", <<Att(Pdf("doc"), 1)>>), Mail("a2", <<Att(Pdf("doc"), 1)>>)>>,
          [NoCounts EXCEPT !["a1"] = Cnt(5, 5)], {"db", "disk"}),
      Scn(<<Mail("a2", <<>>), Mail("a1", <<>>)>>,
          [NoCounts EXCEPT !["a1"] = Cnt(5, 5)], {}) }

FlowInit == \E c \in FlowScenarios : InitScn(c)

FlowNext ==
    \/ StartEmailChecking
    \/ LoopStep

\* the event loop runs the check task whenever it is ready
FlowSpec == FlowInit /\ [][FlowNext]_vars /\ WF_vars(LoopStep)

\* ---- the domain verdict: both checks, the cache and its expiry

DomainScenarios == { Scn(<<>>, NoCounts, {}), Scn(<<>>, NoCounts, {"redis"}) }

DomainInit == \E c \in DomainScenarios : InitScn(c)

DomainNext ==
    \/ \E addr \in Addresses : CheckDomainAllowed(addr)
    \/ \E addr \in Addresses : CheckDomainAllowedInFetch(addr)
    \/ \E d \in Domains : DomainCacheExpire(d)

DomainSpec == DomainInit /\ [][DomainNext]_vars

\* ---- the rules are changed while domains are checked; Redis and the
\* database answer every call

RuleInit == InitScn(Scn(<<>>, NoCounts, {}))

RuleNext ==
    \/ \E addr \in Addresses : CheckDomainGet(addr)
    \/ CheckDomainSelect
    \/ CheckDomainCache
    \/ \E d \in Domains, a \in BOOLEAN : AddDomainRule(d, a)
    \/ \E d \in Domains : RemoveDomainRule(d)
    \/ ClearDomainCache
    \/ \E d \in Domains : DomainCacheExpire(d)

RuleSpec == RuleInit /\ [][RuleNext]_vars

\* ---- the validation of one attachment part

FileInit == InitScn(Scn(<<>>, NoCounts, {}))

FileNext ==
    /\ probe = NoProbe
    /\ \E fn \in FileNames, size \in FileSizes : ValidatePart(fn, size)

FileSpec == FileInit /\ [][FileNext]_vars

\* ---- poll cycles over time: timeouts, dropped connections, the clock

PollScenarios ==
    { Scn(<<Mail("a1", <<Att(Pdf("doc"), 1)>>)>>, NoCounts, {"imap"}),
      Scn(<<Mail("a1", <<Att(Pdf("doc"), 1), Att(Pdf("scan"), 2)>>),
            Mail("a2", <<Att(Pdf("doc"), 1)>>)>>, NoCounts, {"disk"}),
      Scn(<<Mail("a1", <<Att(Pdf("doc"), 1)>>), Mail("a2", <<Att(Pdf("doc"), 1)>>)>>,
          [NoCounts EXCEPT !["a1"] = Cnt(5, 5)], {"db"}) }

PollInit == \E c \in PollScenarios : InitScn(c)

PollNext ==
    \/ StartEmailChecking
    \/ StopEmailChecking
    \/ Timeout
    \/ LoopStep
    \/ BreakConn
    \/ Tick

PollSpec == PollInit /\ [][PollNext]_vars

\* ---- the scheduled cycle and a manual check on the same counters

RaceScenarios ==
    { Scn(<<Msg("a1", 1), Msg("a1", 1)>>, [NoCounts EXCEPT !["a1"] = Cnt(4, 4)], {}),
      Scn(<<Msg("a2", 1)>>, [NoCounts EXCEPT !["a2"] = Cnt(0, 19)], {}) }

RaceInit == \E c \in RaceScenarios : InitScn(c)

RaceNext ==
    \/ StartEmailChecking
    \/ ManualStart
    \/ LoopStep
    \/ ManualStep
    \/ Tick

RaceSpec == RaceInit /\ [][RaceNext]_vars

TypeOK ==
    /\ running \in BOOLEAN
    /\ pc \in [Workers -> {"off", "idle", "fetch", "sleep", "dom", "rate_h",
                           "rate_d", "notify", "incr", "commit", "confirm",
                           "quit"}]
    /\ seen \subseteq 1..Len(mailbox)
    /\ \A w \in Workers : \A i \in 1..Len(todo[w]) : todo[w][i] \in 1..Len(mailbox)
    /\ imapConn \in {"none", "ok", "broken"}
    /\ errors_count \in 0..MaxErrors

\* ------------------------------------------------------------ claims

\* C1: poll cycles do not overlap: the scheduled cycle and a manual check
\* are never both fetching from the shared mailbox connection.
C1_NoOverlap == ~(InFetch("loop") /\ InFetch("manual"))

\* C2: a scheduled cycle whose fetch times out creates no record, counts
\* exactly one error, and is followed by the sleep and the next cycle
\* (unless the service is stopped).
C2_TimeoutCycle ==
    /\ [](cyc.outcome = "timeout" =>
            /\ cyc.recs = 0
            /\ cyc.err = 1
            /\ pc["loop"] \in {"sleep", "fetch", "off"})
    /\ [][(cyc.outcome # "timeout" /\ cyc'.outcome = "timeout") =>
            /\ errors_count' = errors_count + 1
            /\ articles' = articles
            /\ pc'["loop"] = "sleep"]_vars
    /\ ((cyc.outcome = "timeout" /\ pc["loop"] = "sleep")
            ~> (pc["loop"] = "fetch" \/ ~running))

\* a timed-out cycle that had stored an attachment, and the next cycle
\* about to start
C2_Witness ==
    /\ cyc.outcome = "timeout"
    /\ pc["loop"] = "fetch"
    /\ files # {}
    /\ articles = {}

\* C3: while the manager is running no failure inside a cycle ends the
\* check task, and from every cycle in flight the next cycle is reached
\* (unless the service is stopped).
C3_LoopSurvives ==
    /\ [](running => pc["loop"] # "off")
    /\ ((running /\ InCycle("loop")) ~> (pc["loop"] = "fetch" \/ ~running))

\* the cycle after one whose record save failed is about to start
C3_Witness ==
    /\ running
    /\ cyc.outcome = "error"
    /\ errors_count > 0
    /\ pc["loop"] = "fetch"

\* C4: a stop during the sleep ends the wait at once; a stop during a cycle
\* in flight leaves the cycle where it is, to run to its end or timeout.
C4_StopSparesCycle ==
    [][(running /\ ~running') =>
         IF InCycle("loop")
         THEN pc'["loop"] = pc["loop"]
         ELSE pc'["loop"] = "off"]_vars

\* a denial of the rate check of w leaves the counters of all others alone
PeersUntouched(w) ==
    (pc[w] = "rate_d" /\ pc'[w] = "notify") =>
        \A k \in RateSenders \ {HashEmail(Sender(Head(todo[w])))} :
            hourly'[k] = hourly[k] /\ daily'[k] = daily[k]

\* C5: a check made while the hourly count of the sender is at the ceiling
\* is denied, and a denial changes no counter of another sender.
C5_DeniedAtCeiling ==
    /\ [](\A w \in Workers :
            (chk[w].verdict # "none" /\ chk[w].hTrue >= EMAIL_HOURLY_LIMIT)
                => chk[w].verdict # "admitted")
    /\ [][\A w \in Workers : PeersUntouched(w)]_vars

\* C5 as amended: a check that read the hourly count from a reachable store
\* while the count was at the ceiling is denied with hourly_limit, and a
\* denial changes no counter of another sender.
C5_DeniedAtCeilingWhenUp ==
    /\ [](\A w \in Workers :
            (chk[w].verdict # "none" /\ chk[w].hUp
             /\ chk[w].hTrue >= EMAIL_HOURLY_LIMIT)
                => chk[w].verdict = "hourly_limit")
    /\ [][\A w \in Workers : PeersUntouched(w)]_vars

\* a sender at the ceiling is denied while the other sender has counts
C5_Witness ==
    /\ chk["loop"].verdict = "hourly_limit"
    /\ chk["loop"].hTrue = EMAIL_HOURLY_LIMIT
    /\ Sender(Head(todo["loop"])) = "a1"
    /\ hourly["a2"] > 0

\* C6: a message of a sender at the hourly ceiling is denied with
\* hourly_limit, and at most one limit notification goes to the sender in
\* one hourly window.
C6_OneNotification ==
    /\ \A w \in Workers :
         (chk[w].verdict # "none" /\ chk[w].h >= EMAIL_HOURLY_LIMIT)
             => chk[w].verdict = "hourly_limit"
    /\ \A k \in RateSenders : notif[k] <= 1

\* the policy handling of message m is over
Handled(m) ==
    /\ deniedBy[m] \in {"domain", "rate"}
    /\ \A w \in Workers : pc[w] = "notify" => Head(todo[w]) # m

\* C7: a message rejected by the domain check or by the rate limit is
\* flagged read, has no record, and had a notification attempted.
C7_PolicyDenied ==
    \A m \in 1..Len(mailbox) :
        Handled(m) =>
            /\ m \in seen
            /\ \A a \in articles : a.src # m
            /\ m \in attempted

C9_FailOpen ==
    \A w \in Workers :
        chk[w].verdict # "none" =>
            /\ chk[w].verdict = "hourly_limit" => chk[w].hUp
            /\ chk[w].verdict = "daily_limit" => chk[w].dUp
            /\ (~chk[w].hUp /\ ~chk[w].dUp) => chk[w].verdict = "admitted"

\* a sender at the ceiling is admitted because the store was unreachable
C9_Witness ==
    \E w \in Workers :
        /\ chk[w].verdict = "admitted"
        /\ ~chk[w].hUp
        /\ ~chk[w].dUp
        /\ chk[w].hTrue >= EMAIL_HOURLY_LIMIT

\* C10: every tracker id handed out is the id of exactly one record.
C10_OneRecordPerTracker ==
    \A t \in issued :
        /\ Cardinality(Lookup(t)) = 1
        /\ \A a \in Lookup(t) : a.tracker_id = t

\* the attachments the cycle of w holds as accepted and stored
Accepted(w) ==
    [i \in 1..Len(Flatten(batch[w])) |-> Flatten(batch[w])[i].att] \o attachments[w]

\* C11: the file at the stored reference of an upload row has the size the
\* row records; the stored names of the attachments a cycle has accepted
\* are pairwise distinct; and no step replaces a file that is on the disk.
C11_StoredBytes ==
    /\ [](\A u \in uploads : \A f \in disk :
            f.name = u.stored_filename => f.size = u.file_size)
    /\ [](\A w \in Workers : \A i, j \in 1..Len(Accepted(w)) :
            i # j => Accepted(w)[i].stored_filename # Accepted(w)[j].stored_filename)
    /\ [][\A f \in disk : f \in disk' \/ \A g \in disk' : g.name # f.name]_vars

\* the upload row u is rejected and its review is older than the retention
LongRejected(u) ==
    /\ u.status = "rejected"
    /\ u.processed_at # NoTime
    /\ u.processed_at < now - RETENTION

\* C12: no step removes the row or the stored file of an upload that is
\* not both rejected and older than the retention period.
C12_MaintenanceSpares ==
    [][\A u \in uploads :
         ~LongRejected(u) =>
            /\ \E v \in uploads' : v.id = u.id
            /\ \A f \in disk : f.name = u.stored_filename =>
                   \E g \in disk' : g.name = f.name]_vars

\* C16: the status of an upload row changes only from pending to
\* processing, from processing to completed (approved), or from pending to
\* rejected.
C16_StatusMachine ==
    [][\A u \in uploads : \A v \in uploads' :
         (v.id = u.id /\ v.status # u.status) =>
            <<u.status, v.status>> \in { <<"pending", "processing">>,
                                         <<"processing", "approved">>,
                                         <<"pending", "rejected">> }]_vars

\* C17: a status update to pending or processing leaves processed_at as it
\* was.
C17_ProcessedAt ==
    [][\A u \in uploads : \A v \in uploads' :
         (v.id = u.id /\ v # u /\ v.status \in {"pending", "processing"}) =>
            v.processed_at = u.processed_at]_vars

\* the run is Scenario A with every service reachable
ScenarioA == mailbox = ScenarioAMailbox /\ env = {}

\* Scenario A is through: one upload row and one article, both pending,
\* one tracker id generated, and the confirmation of that id attempted once
ScenarioADone ==
    /\ Cardinality(uploads) = 1
    /\ \A u \in uploads : u.status = "pending" /\ u.id = 1
    /\ Cardinality(articles) = 1
    /\ \A a \in articles : a.processing_status = "pending" /\ a.tracker_id = 1
    /\ nextTid = 1
    /\ conf["loop"].tried = {1}
    /\ conf["loop"].opened = 1

Confirmations(t) ==
    {m \in outbox : m.kind = "confirmation" /\ m.tracker_id = t}

\* C14: when the confirmation phase of a saved batch is over and its SMTP
\* connection was opened, the connection was opened once and closed once
\* and one confirmation per record, to the sender of the record, was handed
\* to it.
C14_OneMessagePerRecord ==
    \A w \in Workers :
        conf[w].closed >= 1 =>
            /\ conf[w].opened = 1
            /\ conf[w].closed = 1
            /\ \A a \in articles :
                  a.tracker_id \in conf[w].records =>
                      /\ Cardinality(Confirmations(a.tracker_id)) = 1
                      /\ \A m \in Confirmations(a.tracker_id) : m.to = Sender(a.src)

\* C15: a step of the confirmation phase changes no article and no upload
\* row, and once the connection is open the send of every record of the
\* batch is called, whatever the earlier sends did.
C15_NotificationContained ==
    [][\A w \in Workers :
          (pc[w] \in {"confirm", "quit"} /\ pc'[w] # pc[w]) =>
              /\ articles' = articles
              /\ uploads' = uploads
              /\ conf'[w].opened > conf[w].opened =>
                     conf'[w].tried = conf[w].records]_vars

\* a batch of two records: both sends were called, both failed, and both
\* records are in the tables
C15_Witness ==
    /\ conf["loop"].closed = 1
    /\ Cardinality(conf["loop"].tried) = 2
    /\ \A t \in conf["loop"].tried :
          /\ Confirmations(t) = {}
          /\ \E u \in uploads : u.id = t
          /\ \E a \in articles : a.tracker_id = t

\* the verdict the algorithm gives for a probed address: an invalid address
\* is refused, a cached verdict is returned, a miss is decided by the rules
ExpectedVerdict(p) ==
    IF ~IsValidEmail(p.addr) THEN FALSE
    ELSE IF p.cached # "none" THEN p.cached = "allowed"
    ELSE RuleVerdict(ExtractDomainOf(p.addr))

\* C18: the verdict of a domain check, by the check of the pipeline and by
\* the domain service alike, is the one of the algorithm (invalid syntax
\* refused, cached verdict first, else the rules on the lowercased domain),
\* and a verdict computed from the rules with Redis reachable is cached.
C18_DomainVerdict ==
    probe.kind \in {"domain_service", "email_service"} =>
        /\ probe.allowed = ExpectedVerdict(probe)
        /\ (probe.kind = "domain_service" /\ IsValidEmail(probe.addr)
              /\ probe.redis /\ probe.cached = "none") =>
                domCache[ExtractDomainOf(probe.addr)] =
                    (IF probe.allowed THEN "allowed" ELSE "blocked")

\* C19: a part whose file name holds the token '..' is refused by the
\* validation the pipeline runs, and by the one of the attachment service,
\* whatever its extension and size.
C19_TraversalRejected ==
    (probe.kind = "file" /\ HasDotDot(probe.name)) =>
        /\ ~probe.email_service
        /\ ~probe.attachment_service

\* C20: a tracker id of a record looked up in any letter case gives the
\* record its issued (upper-case) form gives.
C20_CaseNormalized ==
    \A a \in articles : \A form \in LetterCases :
        GetTrackerStatus(TrackerText(a.tracker_id, form)) =
            GetTrackerStatus(StoredTrackerText(a))

\* the step ends the examination of the message at the head of todo[w]
Examined(w) ==
    /\ InFetch(w)
    /\ todo[w] # <<>>
    /\ todo'[w] # todo[w]

\* C21: a message without attachment parts has no record, and the step
\* that ends its examination leaves it flagged read.
C21_ZeroAttachments ==
    [][/\ \A a \in articles' : a.src # 0 => mailbox[a.src].natt # 0
       /\ \A w \in Workers :
             (Examined(w) /\ mailbox[Head(todo[w])].natt = 0) =>
                 Head(todo[w]) \in seen']_vars

\* C22: a maintenance run right after a completed run at the same time
\* deletes no row and no file and raises nothing, whether or not the
\* database answers it.
C22_MaintenanceIdempotent ==
    LET r1 == Maintain(uploads, disk, now, TRUE, TRUE) IN
    \A selOk, delOk \in BOOLEAN :
        LET r2 == Maintain(r1.uploads, r1.disk, now, selOk, delOk) IN
        /\ r2.uploads = r1.uploads
        /\ r2.disk = r1.disk
        /\ ~r2.raised

\* two rejected rows are past the retention: the first run deletes them
\* and their files
C22_Witness ==
    /\ running
    /\ Cardinality(OldUploads(now - RETENTION)) = 2
    /\ Maintain(uploads, disk, now, TRUE, TRUE).disk # disk

\* the records made from message m
RecordsOf(m) == {a \in articles : a.src = m}

\* C23: a message gives records in at most one cycle: it never has more
\* records than it has attachment parts.
C23_AdmittedOnce ==
    \A m \in 1..Len(mailbox) : Cardinality(RecordsOf(m)) <= mailbox[m].natt

\* no poll cycle is in flight
NoCycle == \A w \in Workers : pc[w] \in {"off", "idle", "sleep"}

\* C24: when no cycle is in flight, every stored attachment file is the
\* stored file of an upload row.
C24_NoOrphanFile ==
    NoCycle => \A f \in disk : \E u \in uploads : u.stored_filename = f.name

\* C25: with Redis reachable, the admissions counted for a sender in the
\* hourly window never exceed the hourly ceiling, nor those of the daily
\* window the daily ceiling.
C25_CeilingKept ==
    "redis" \notin env =>
        \A k \in RateSenders :
            /\ hourly[k] <= EMAIL_HOURLY_LIMIT
            /\ daily[k] <= EMAIL_DAILY_LIMIT

\* the step abandons the scheduled cycle on the timeout of wait_for
TimedOut == cyc.outcome = "running" /\ cyc'.outcome = "timeout"

\* C26: the step that abandons a cycle on timeout discards the mailbox
\* connection, so that the next cycle has to connect anew.
C26_TimeoutDiscardsConnection ==
    [][TimedOut => imapConn' = "none"]_vars

\* the step is an admission of sender k counted by the Redis store
Counted(k) == hourly'[k] = hourly[k] + 1 /\ daily'[k] = daily[k] + 1

\* C27: an admission that is not the first increment of a counter in its
\* window leaves the time the TTL of that counter was set, and with it the
\* reset time of the window, as it was.
C27_ExpiryArmedOnce ==
    [][\A k \in RateSenders :
          Counted(k) =>
              /\ hourly[k] > 0 => armed'[k].h = armed[k].h
              /\ daily[k] > 0 => armed'[k].d = armed[k].d]_vars

\* C28: once add_domain_rule or remove_domain_rule has completed for a domain
\* and no other change is in progress, a check of that domain returns the
\* verdict of the committed rule, whatever checks were in progress meanwhile
C28_CommittedRuleSeen ==
    domCall.change.pc = "idle" =>
        \A d \in domCall.completed : CheckNow(d) = RuleVerdictOf(rules, d)

\* a sending operation is between its connect_smtp and its disconnect_smtp
Sending(w) == pc[w] = "quit"

\* C29: when no confirmation batch and no limit notification is being sent,
\* no SMTP connection is left open: every sending operation that returned,
\* with or without a failure, closed the connection it opened
C29_SmtpReleased ==
    (\A w \in Workers : ~Sending(w)) => smtp_connection = "none"

\* the Article rows save_email_records added next to the EmailUpload row u:
\* the tracker id is in the Article only, both rows name the stored file
ArticlesOfUpload(u) == {a \in articles : a.github_url = u.stored_filename}

\* C30: once the review has changed the status of an email upload, the
\* lookup of the upload's tracker id no longer reports the status the
\* upload was created with
C30_LookupSeesReview ==
    \A u \in uploads :
        u.status # "pending" =>
            \A a \in ArticlesOfUpload(u) :
                \E r \in GetTrackerStatus(StoredTrackerText(a)) :
                    r.processing_status # "pending"

====
